---- MODULE Spec2Model ----
(***************************************************************************)
(* style-markdown: the rewrite rules of src/main.rs and Args::run.         *)
(*                                                                         *)
(* A string is a sequence of one-character strings.  The four curly quotes *)
(* are written "U+2018", "U+2019", "U+201C", "U+201D"; each is one char of *)
(* three UTF-8 bytes.                                                      *)
(***************************************************************************)
EXTENDS Integers, Sequences, FiniteSets, TLC

VARIABLES
    file,       \* contents of the file at Args::path
    orig,       \* contents of the file when the run started
    command,    \* Args::command
    commit,     \* Args::commit
    pc,         \* position in Args::run, or in the application of one rule
    before,     \* the text handed to Command::rewrite
    after,      \* the text it returned (run: with the trailing newline ensured)
    rewritten,  \* run: what Command::rewrite returned, before the newline check
    twice,      \* the rule applied to its own output
    index,      \* what the git index holds for the path
    head,       \* what the last commit holds for the path
    precheck,   \* the outcome of the `git status --porcelain` pre-check
    failed      \* the step that made the run fail, or "none"

vars == <<file, orig, command, commit, pc, before, after, rewritten, twice,
          index, head, precheck, failed>>

----------------------------------------------------------------------------
(* Bounds of the model.                                                    *)

MaxPieces == 4
MaxWords == 5
MaxFootnotePieces == 4
MaxUrlPieces == 3
MaxRunPieces == 2

----------------------------------------------------------------------------
(* Strings.                                                                *)

Min(S) == CHOOSE x \in S : \A y \in S : x <= y

Max(S) == CHOOSE x \in S : \A y \in S : x >= y

Utf8Wide == {"U+2018", "U+2019", "U+201C", "U+201D"}

\* str::len: the length in bytes.
ByteLen(s) == Len(s) + 2 * Cardinality({i \in DOMAIN s : s[i] \in Utf8Wide})

StartsWithAt(s, i, p) ==
    /\ i + Len(p) - 1 <= Len(s)
    /\ \A k \in 1..Len(p) : s[i + k - 1] = p[k]

EndsWith(s, p) == Len(s) >= Len(p) /\ StartsWithAt(s, Len(s) - Len(p) + 1, p)

\* The first index at or after i that holds no space (Len(s) + 1 if none): where
\* a greedy ` +` or ` *` that starts at i stops.
SpaceRunEnd(s, i) == Min({j \in i..(Len(s) + 1) : j = Len(s) + 1 \/ s[j] /= " "})

\* The first index at or after i that holds c (Len(s) + 1 if none).
IndexOf(s, i, c) == Min({j \in i..(Len(s) + 1) : j = Len(s) + 1 \/ s[j] = c})

RECURSIVE Concat(_)
Concat(ss) == IF ss = <<>> THEN <<>> ELSE Head(ss) \o Concat(Tail(ss))

\* Itertools::join / [T]::join with a separator string.
RECURSIVE Join(_, _)
Join(ss, sep) ==
    IF ss = <<>> THEN <<>>
    ELSE IF Len(ss) = 1 THEN ss[1]
    ELSE ss[1] \o sep \o Join(Tail(ss), sep)

\* str::split(c): the pieces between the occurrences of the character c.
RECURSIVE SplitFrom(_, _, _)
SplitFrom(s, i, c) ==
    LET j == IndexOf(s, i, c)
    IN  IF j > Len(s) THEN <<SubSeq(s, i, Len(s))>>
        ELSE <<SubSeq(s, i, j - 1)>> \o SplitFrom(s, j + 1, c)

Split(s, c) == SplitFrom(s, 1, c)

\* str::split_terminator(c): as split, without a final empty piece.
SplitTerminator(s, c) ==
    LET p == Split(s, c)
    IN  IF p[Len(p)] = <<>> THEN SubSeq(p, 1, Len(p) - 1) ELSE p

----------------------------------------------------------------------------
(* add_semantic_line_breaks.                                               *)

max_line_length == 100

line_starting_words ==
    << <<"b", "e", "c", "a", "u", "s", "e">>, <<"t", "h", "a", "t">>, <<"r", "a", "t", "h", "e", "r", " ", "t", "h", "a", "n">>, <<"o", "f", " ", "h", "o", "w">>, <<"i", "n", " ", "o", "r", "d", "e", "r", " ", "t", "o">> >>

\* conjunction.split(' ').len()
WordCount(w) == 1 + Cardinality({i \in DOMAIN w : w[i] = " "})

\* sorted_by(|a, b| a.len().cmp(&b.len()).reverse()): a stable sort, more words
\* first.
RECURSIVE SortedFrom(_, _)
SortedFrom(ws, n) ==
    IF n = 0 THEN <<>>
    ELSE SelectSeq(ws, LAMBDA w : WordCount(w) = n) \o SortedFrom(ws, n - 1)

line_starting_words_regex ==
    SortedFrom(line_starting_words,
               Max({WordCount(line_starting_words[i]) : i \in DOMAIN line_starting_words}))

\* The alternatives of the `after` group, in the order the regex tries them.
AfterAlternatives == << <<"(">>, <<"[">> >> \o line_starting_words_regex

OuterPunctuation == {".", "!", "?", ";", ":"}

InnerPunctuation == {",", ")", "]"}

\* (?<before>[...]) +   at j: the length of the match, 0 if none.
BeforeMatchAt(punct, s, j) ==
    IF s[j] \in punct /\ j < Len(s) /\ s[j + 1] = " "
    THEN SpaceRunEnd(s, j + 1) - j
    ELSE 0

\* The alternative of the `after` group taken at k: the first that matches
\* (0 if none does).
AfterAlternativeAt(s, k) ==
    LET hits == {a \in DOMAIN AfterAlternatives : StartsWithAt(s, k, AfterAlternatives[a])}
    IN  IF hits = {} THEN 0 ELSE Min(hits)

\*  +(?<after>...)   at j: ` +` is greedy and gives spaces back until the
\* group matches.  The end of the run of spaces taken (0 if no match).
AfterSpacesEnd(s, j) ==
    IF s[j] /= " " THEN 0
    ELSE LET ends == {k \in (j + 1)..SpaceRunEnd(s, j) : AfterAlternativeAt(s, k) > 0}
         IN  IF ends = {} THEN 0 ELSE Max(ends)

AfterMatchAt(s, j) ==
    LET k == AfterSpacesEnd(s, j)
    IN  IF k = 0 THEN 0 ELSE k + Len(AfterAlternatives[AfterAlternativeAt(s, k)]) - j

\* outer_separators_regex and inner_separators_regex.
SeparatorMatchAt(tier, s, j) ==
    IF tier = "outer" THEN BeforeMatchAt(OuterPunctuation, s, j)
    ELSE IF BeforeMatchAt(InnerPunctuation, s, j) > 0
         THEN BeforeMatchAt(InnerPunctuation, s, j)
         ELSE AfterMatchAt(s, j)

OuterMatchAt(s, j) == SeparatorMatchAt("outer", s, j)

InnerMatchAt(s, j) == SeparatorMatchAt("inner", s, j)

\* A closure that writes the line break and forgets the `before` capture.
LineBreakReplacementDroppingBefore(s, j, m) ==
    IF s[j] /= " " THEN <<"\n">>
    ELSE LET k == AfterSpacesEnd(s, j) IN <<"\n">> \o SubSeq(s, k, j + m - 1)

\* The closure given to replace_all: "{before}\n" or "\n{after}".
LineBreakReplacement(s, j, m) ==
    IF s[j] /= " " THEN <<s[j], "\n">>
    ELSE LET k == AfterSpacesEnd(s, j) IN <<"\n">> \o SubSeq(s, k, j + m - 1)

----------------------------------------------------------------------------
(* The patterns of the other rules.                                        *)

\* <data:image/[^>]*>
DataImageMatchAt(s, j) ==
    LET k == IndexOf(s, j + Len(<<"<", "d", "a", "t", "a", ":", "i", "m", "a", "g", "e", "/">>), ">")
    IN  IF StartsWithAt(s, j, <<"<", "d", "a", "t", "a", ":", "i", "m", "a", "g", "e", "/">>) /\ k <= Len(s) THEN k - j + 1 ELSE 0

\* (\[[^\]]*\]: ) *
RefWithSpacesMatchAt(s, j) ==
    LET k == IndexOf(s, j + 1, "]")
    IN  IF s[j] = "[" /\ k <= Len(s) /\ StartsWithAt(s, k + 1, <<":", " ">>)
        THEN SpaceRunEnd(s, k + 3) - j
        ELSE 0

\* captures[1]
RefWithSpacesReplacement(s, j, m) == SubSeq(s, j, IndexOf(s, j + 1, "]") + 2)

\* \[(?<text>[^\]]*)\]\((?<link>[^)]*)\)
LinkTextEnd(s, j) == IndexOf(s, j + 1, "]")

LinkEnd(s, j) == IndexOf(s, LinkTextEnd(s, j) + 2, ")")

LinkMatchAt(s, j) ==
    IF /\ s[j] = "["
       /\ LinkTextEnd(s, j) < Len(s)
       /\ s[LinkTextEnd(s, j) + 1] = "("
       /\ LinkEnd(s, j) <= Len(s)
    THEN LinkEnd(s, j) - j + 1
    ELSE 0

\* text.replace('\\', "")
WithoutBackslashes(text) == SelectSeq(text, LAMBDA c : c /= "\\")

\* The comparison made on the text as written, backslashes included.
LinkReplacementComparingRawText(s, j, m) ==
    LET text == SubSeq(s, j + 1, LinkTextEnd(s, j) - 1)
        link == SubSeq(s, LinkTextEnd(s, j) + 2, j + m - 2)
    IN  IF text = link
        THEN <<"<">> \o link \o <<">">>
        ELSE SubSeq(s, j, j + m - 1)

LinkReplacement(s, j, m) ==
    LET text == SubSeq(s, j + 1, LinkTextEnd(s, j) - 1)
        link == SubSeq(s, LinkTextEnd(s, j) + 2, j + m - 2)
    IN  IF WithoutBackslashes(text) = link
        THEN <<"<">> \o link \o <<">">>
        ELSE SubSeq(s, j, j + m - 1)

\* (?<footnote>\[\^[^\]]*\])(?<punctuation>[.!?;,])
FootnotePunctuation == {".", "!", "?", ";", ","}

FootnoteMatchAt(s, j) ==
    LET k == IndexOf(s, j + 2, "]")
    IN  IF /\ StartsWithAt(s, j, <<"[", "^">>)
           /\ k < Len(s)
           /\ s[k + 1] \in FootnotePunctuation
        THEN k + 2 - j
        ELSE 0

\* format!("{footnote}{punctuation}"): the two written in the order they came.
FootnoteReplacementUnswapped(s, j, m) == SubSeq(s, j, j + m - 1)

\* format!("{punctuation}{footnote}")
FootnoteReplacement(s, j, m) == <<s[j + m - 1]>> \o SubSeq(s, j, j + m - 2)

----------------------------------------------------------------------------
(* Regex::replace_all, Regex::split and str::replace.                      *)

Outer == [kind |-> "outer"]
Inner == [kind |-> "inner"]
DataImage == [kind |-> "data_image"]
RefWithSpaces == [kind |-> "ref_with_spaces"]
Link == [kind |-> "link"]
Footnote == [kind |-> "footnote"]
Literal(pat, to) == [kind |-> "literal", pat |-> pat, to |-> to]
AnyOf(chars, to) == [kind |-> "chars", chars |-> chars, to |-> to]

\* The length of the match of pattern p that starts at j, 0 when none does.
MatchAt(p, s, j) ==
    CASE p.kind = "outer" -> OuterMatchAt(s, j)
      [] p.kind = "inner" -> InnerMatchAt(s, j)
      [] p.kind = "data_image" -> DataImageMatchAt(s, j)
      [] p.kind = "ref_with_spaces" -> RefWithSpacesMatchAt(s, j)
      [] p.kind = "link" -> LinkMatchAt(s, j)
      [] p.kind = "footnote" -> FootnoteMatchAt(s, j)
      [] p.kind = "literal" -> IF StartsWithAt(s, j, p.pat) THEN Len(p.pat) ELSE 0
      [] p.kind = "chars" -> IF s[j] \in p.chars THEN 1 ELSE 0

\* What the match of length m at j is replaced by.
Replacement(p, s, j, m) ==
    CASE p.kind \in {"outer", "inner"} -> LineBreakReplacement(s, j, m)
      [] p.kind = "data_image" -> <<"T", "O", "D", "O">>
      [] p.kind = "ref_with_spaces" -> RefWithSpacesReplacement(s, j, m)
      [] p.kind = "link" -> LinkReplacement(s, j, m)
      [] p.kind = "footnote" -> FootnoteReplacement(s, j, m)
      [] p.kind \in {"literal", "chars"} -> p.to

\* The start of the leftmost match at or after i (Len(s) + 1 if none).
NextMatch(p, s, i) == Min({j \in i..(Len(s) + 1) : j = Len(s) + 1 \/ MatchAt(p, s, j) > 0})

\* The leftmost match at or after i is replaced and the scan goes on after its
\* end: the matches do not overlap.
RECURSIVE ReplaceFrom(_, _, _)
ReplaceFrom(p, s, i) ==
    LET j == NextMatch(p, s, i)
    IN  IF j > Len(s) THEN SubSeq(s, i, Len(s))
        ELSE SubSeq(s, i, j - 1) \o Replacement(p, s, j, MatchAt(p, s, j))
                 \o ReplaceFrom(p, s, j + MatchAt(p, s, j))

ReplaceAll(p, s) == ReplaceFrom(p, s, 1)

\* The starts of the matches the scan finds.
RECURSIVE MatchesFrom(_, _, _)
MatchesFrom(p, s, i) ==
    LET j == NextMatch(p, s, i)
    IN  IF j > Len(s) THEN {} ELSE {j} \cup MatchesFrom(p, s, j + MatchAt(p, s, j))

Matches(p, s) == MatchesFrom(p, s, 1)

----------------------------------------------------------------------------
(* add_semantic_line_breaks: the split and the rejoin.                     *)

AsciiWhitespace == {" ", "\t", "\n", "\f", "\r"}

\* line.trim_ascii_start().starts_with('#')
is_heading(line) ==
    LET k == Min({j \in 1..(Len(line) + 1) :
                     j = Len(line) + 1 \/ line[j] \notin AsciiWhitespace})
    IN  k <= Len(line) /\ line[k] = "#"

\* The loop without its first branch: the first fragment is joined like the
\* others.
RejoinStepWithoutFirstCase(st, fragment, max) ==
    IF st.len + ByteLen(fragment) < max
    THEN [lines |-> st.lines \o <<" ">> \o fragment, len |-> st.len + ByteLen(fragment)]
    ELSE [lines |-> st.lines \o <<"\n">> \o fragment, len |-> ByteLen(fragment)]

\* One step of the rejoin loop: st = [lines |-> rejoined_lines.concat(),
\* len |-> current_line_length].
RejoinStep(st, fragment, max) ==
    IF st.len = 0
    THEN [lines |-> st.lines \o fragment, len |-> ByteLen(fragment)]
    ELSE IF st.len + ByteLen(fragment) < max
    THEN [lines |-> st.lines \o <<" ">> \o fragment, len |-> st.len + ByteLen(fragment)]
    ELSE [lines |-> st.lines \o <<"\n">> \o fragment, len |-> ByteLen(fragment)]

RECURSIVE Rejoin(_, _, _, _)
Rejoin(fragments, k, st, max) ==
    IF k > Len(fragments) THEN st.lines
    ELSE Rejoin(fragments, k + 1, RejoinStep(st, fragments[k], max), max)

with_all_line_breaks(tier, line) ==
    ReplaceAll(IF tier = "outer" THEN Outer ELSE Inner, line)

\* add_line_breaks without the test for headings.
AddLineBreaksToHeadingsToo(tier, line, max) ==
    IF ByteLen(line) < max THEN line
    ELSE Rejoin(Split(with_all_line_breaks(tier, line), "\n"), 1,
                [lines |-> <<>>, len |-> 0], max)

add_line_breaks(tier, line, max) ==
    IF ByteLen(line) < max \/ is_heading(line) THEN line
    ELSE Rejoin(Split(with_all_line_breaks(tier, line), "\n"), 1,
                [lines |-> <<>>, len |-> 0], max)

\* The closure of the outer map: the inner tier on every line the outer tier
\* made of one original line.
BreakLine(line) ==
    LET outer == SplitTerminator(add_line_breaks("outer", line, max_line_length), "\n")
    IN  Join([k \in DOMAIN outer |-> add_line_breaks("inner", outer[k], max_line_length)],
             <<"\n">>)

add_semantic_line_breaks(text) ==
    LET lines == SplitTerminator(text, "\n")
    IN  Join([k \in DOMAIN lines |-> BreakLine(lines[k])], <<"\n">>)

WorkedExampleBefore == <<
    "\n", "#", " ", "A", " ", "N", "o", "t", "-", "S", "o", "-", "C", "a", "p", "i", "t", "a", 
    "l", " ", "P", "l", "a", "n", " ", "P", "a", "r", "t", " ", "2", ":", " ", "T", "h", "e", 
    " ", "F", "u", "t", "u", "r", "e", " ", "i", "s", " ", "E", "l", "e", "c", "t", "r", "i", 
    "c", "\n", "\n", "M", "e", "t", "r", "o", "-", "N", "o", "r", "t", "h", "'", "s", " ", "M", 
    "8", " ", "c", "a", "n", " ", "r", "u", "n", " ", "o", "n", " ", "c", "a", "t", "e", "n", 
    "a", "r", "y", " ", "p", "o", "w", "e", "r", " ", "(", "l", "e", "f", "t", "[", "^", "M", 
    "8", "-", "c", "a", "t", "e", "n", "a", "r", "y", "-", "p", "a", "n", "t", "o", "g", "r", 
    "a", "p", "h", "-", "c", "i", "t", "a", "t", "i", "o", "n", "]", ")", " ", "o", "r", " ", 
    "o", "n", " ", "e", "i", "t", "h", "e", "r", " ", "o", "v", "e", "r", "-", " ", "o", "r", 
    " ", "u", "n", "d", "e", "r", "-", "r", "u", "n", "n", "i", "n", "g", " ", "t", "h", "i", 
    "r", "d", " ", "r", "a", "i", "l", "s", " ", "(", "s", "h", "o", "e", " ", "s", "e", "e", 
    "n", " ", "a", "t", " ", "r", "i", "g", "h", "t", "[", "^", "M", "8", "-", "t", "h", "i", 
    "r", "d", "-", "r", "a", "i", "l", "-", "s", "h", "o", "e", "-", "c", "i", "t", "a", "t", 
    "i", "o", "n", "]", ")", ".", "\n", "\n", "#", "#", " ", "I", "n", "t", "r", "o", "d", "u", 
    "c", "t", "i", "o", "n", "\n", "\n", "I", "n", " ", "m", "a", "j", "o", "r", " ", "c", "i", 
    "t", "i", "e", "s", " ", "a", "l", "l", " ", "a", "c", "r", "o", "s", "s", " ", "t", "h", 
    "e", " ", "g", "l", "o", "b", "e", ",", " ", "e", "l", "e", "c", "t", "r", "i", "c", " ", 
    "t", "r", "a", "i", "n", "s", " ", "f", "o", "r", "m", " ", "t", "h", "e", " ", "b", "a", 
    "c", "k", "b", "o", "n", "e", " ", "o", "f", " ", "u", "r", "b", "a", "n", " ", "t", "r", 
    "a", "n", "s", "p", "o", "r", "t", "a", "t", "i", "o", "n", ".", " ", "T", "h", "e", " ", 
    "b", "e", "n", "e", "f", "i", "t", "s", " ", "o", "f", " ", "e", "l", "e", "c", "t", "r", 
    "i", "f", "i", "c", "a", "t", "i", "o", "n", " ", "a", "r", "e", " ", "s", "i", "m", "p", 
    "l", "y", " ", "t", "o", "o", " ", "g", "r", "e", "a", "t", " ", "t", "o", " ", "i", "g", 
    "n", "o", "r", "e", ".", " ", "E", "l", "e", "c", "t", "r", "i", "c", " ", "t", "r", "a", 
    "i", "n", "s", " ", "a", "c", "c", "e", "l", "e", "r", "a", "t", "e", " ", "f", "a", "s", 
    "t", "e", "r", ",", " ", "r", "e", "d", "u", "c", "e", " ", "o", "v", "e", "r", "a", "l", 
    "l", " ", "j", "o", "u", "r", "n", "e", "y", " ", "t", "i", "m", "e", "s", ",", " ", "a", 
    "n", "d", " ", "p", "r", "o", "v", "i", "d", "e", " ", "a", " ", "h", "i", "g", "h", "e", 
    "r", "-", "q", "u", "a", "l", "i", "t", "y", " ", "p", "a", "s", "s", "e", "n", "g", "e", 
    "r", " ", "e", "x", "p", "e", "r", "i", "e", "n", "c", "e", " ", "t", "h", "a", "n", " ", 
    "t", "h", "e", "i", "r", " ", "d", "i", "e", "s", "e", "l", "-", "p", "o", "w", "e", "r", 
    "e", "d", " ", "c", "o", "u", "n", "t", "e", "r", "p", "a", "r", "t", "s", ",", " ", "a", 
    "l", "l", " ", "w", "h", "i", "l", "e", " ", "b", "e", "i", "n", "g", " ", "c", "h", "e", 
    "a", "p", "e", "r", " ", "t", "o", " ", "r", "u", "n", " ", "a", "n", "d", " ", "m", "a", 
    "i", "n", "t", "a", "i", "n", ".", " ", "E", "l", "e", "c", "t", "r", "i", "c", " ", "t", 
    "r", "a", "i", "n", "s", " ", "a", "r", "e", " ", "a", "l", "s", "o", " ", "a", " ", "p", 
    "o", "w", "e", "r", "f", "u", "l", " ", "t", "o", "o", "l", " ", "f", "o", "r", " ", "d", 
    "e", "c", "a", "r", "b", "o", "n", "i", "z", "a", "t", "i", "o", "n", ":", " ", "t", "h", 
    "e", "y", " ", "c", "a", "n", " ", "e", "a", "s", "i", "l", "y", " ", "r", "u", "n", " ", 
    "o", "n", " ", "n", "o", "n", "-", "c", "a", "r", "b", "o", "n", " ", "f", "u", "e", "l", 
    " ", "s", "o", "u", "r", "c", "e", "s", " ", "a", "n", "d", " ", "p", "r", "o", "d", "u", 
    "c", "e", " ", "n", "o", " ", "l", "o", "c", "a", "l", " ", "p", "o", "l", "l", "u", "t", 
    "i", "o", "n", ".", " ", "I", "t", " ", "i", "s", " ", "r", "a", "r", "e", " ", "t", "h", 
    "a", "t", " ", "a", " ", "s", "i", "n", "g", "l", "e", " ", "t", "e", "c", "h", "n", "o", 
    "l", "o", "g", "y", " ", "c", "a", "n", " ", "r", "e", "d", "u", "c", "e", " ", "b", "o", 
    "t", "h", " ", "p", "o", "l", "l", "u", "t", "i", "o", "n", " ", "a", "n", "d", " ", "c", 
    "o", "s", "t", "s", " ", "w", "h", "i", "l", "e", " ", "a", "l", "s", "o", " ", "a", "c", 
    "t", "u", "a", "l", "l", "y", " ", "i", "m", "p", "r", "o", "v", "i", "n", "g", " ", "s", 
    "e", "r", "v", "i", "c", "e", ",", " ", "b", "u", "t", " ", "e", "l", "e", "c", "t", "r", 
    "i", "c", " ", "r", "a", "i", "l", " ", "c", "a", "n", " ", "a", "c", "c", "o", "m", "p", 
    "l", "i", "s", "h", " ", "j", "u", "s", "t", " ", "t", "h", "a", "t", ".", " ", "T", "h", 
    "a", "t", " ", "i", "s", " ", "w", "h", "y", " ", "t", "h", "e", " ", "f", "u", "t", "u", 
    "r", "e", " ", "o", "f", " ", "r", "a", "i", "l", " ", "i", "s", " ", "e", "l", "e", "c", 
    "t", "r", "i", "c", " ", "a", "r", "o", "u", "n", "d", " ", "b", "o", "t", "h", " ", "t", 
    "h", "e", " ", "c", "o", "u", "n", "t", "r", "y", " ", "a", "n", "d", " ", "t", "h", "e", 
    " ", "w", "o", "r", "l", "d", ".", "\n", " ", " ", " ", " ", " ", " ", " ", " " >>

WorkedExampleAfter == <<
    "\n", "#", " ", "A", " ", "N", "o", "t", "-", "S", "o", "-", "C", "a", "p", "i", "t", "a", 
    "l", " ", "P", "l", "a", "n", " ", "P", "a", "r", "t", " ", "2", ":", " ", "T", "h", "e", 
    " ", "F", "u", "t", "u", "r", "e", " ", "i", "s", " ", "E", "l", "e", "c", "t", "r", "i", 
    "c", "\n", "\n", "M", "e", "t", "r", "o", "-", "N", "o", "r", "t", "h", "'", "s", " ", "M", 
    "8", " ", "c", "a", "n", " ", "r", "u", "n", " ", "o", "n", " ", "c", "a", "t", "e", "n", 
    "a", "r", "y", " ", "p", "o", "w", "e", "r", " ", "(", "l", "e", "f", "t", "[", "^", "M", 
    "8", "-", "c", "a", "t", "e", "n", "a", "r", "y", "-", "p", "a", "n", "t", "o", "g", "r", 
    "a", "p", "h", "-", "c", "i", "t", "a", "t", "i", "o", "n", "]", ")", "\n", "o", "r", " ", 
    "o", "n", " ", "e", "i", "t", "h", "e", "r", " ", "o", "v", "e", "r", "-", " ", "o", "r", 
    " ", "u", "n", "d", "e", "r", "-", "r", "u", "n", "n", "i", "n", "g", " ", "t", "h", "i", 
    "r", "d", " ", "r", "a", "i", "l", "s", " ", "(", "s", "h", "o", "e", " ", "s", "e", "e", 
    "n", " ", "a", "t", " ", "r", "i", "g", "h", "t", "[", "^", "M", "8", "-", "t", "h", "i", 
    "r", "d", "-", "r", "a", "i", "l", "-", "s", "h", "o", "e", "-", "c", "i", "t", "a", "t", 
    "i", "o", "n", "]", ")", ".", "\n", "\n", "#", "#", " ", "I", "n", "t", "r", "o", "d", "u", 
    "c", "t", "i", "o", "n", "\n", "\n", "I", "n", " ", "m", "a", "j", "o", "r", " ", "c", "i", 
    "t", "i", "e", "s", " ", "a", "l", "l", " ", "a", "c", "r", "o", "s", "s", " ", "t", "h", 
    "e", " ", "g", "l", "o", "b", "e", ",", " ", "e", "l", "e", "c", "t", "r", "i", "c", " ", 
    "t", "r", "a", "i", "n", "s", " ", "f", "o", "r", "m", " ", "t", "h", "e", " ", "b", "a", 
    "c", "k", "b", "o", "n", "e", " ", "o", "f", " ", "u", "r", "b", "a", "n", " ", "t", "r", 
    "a", "n", "s", "p", "o", "r", "t", "a", "t", "i", "o", "n", ".", "\n", "T", "h", "e", " ", 
    "b", "e", "n", "e", "f", "i", "t", "s", " ", "o", "f", " ", "e", "l", "e", "c", "t", "r", 
    "i", "f", "i", "c", "a", "t", "i", "o", "n", " ", "a", "r", "e", " ", "s", "i", "m", "p", 
    "l", "y", " ", "t", "o", "o", " ", "g", "r", "e", "a", "t", " ", "t", "o", " ", "i", "g", 
    "n", "o", "r", "e", ".", "\n", "E", "l", "e", "c", "t", "r", "i", "c", " ", "t", "r", "a", 
    "i", "n", "s", " ", "a", "c", "c", "e", "l", "e", "r", "a", "t", "e", " ", "f", "a", "s", 
    "t", "e", "r", ",", " ", "r", "e", "d", "u", "c", "e", " ", "o", "v", "e", "r", "a", "l", 
    "l", " ", "j", "o", "u", "r", "n", "e", "y", " ", "t", "i", "m", "e", "s", ",", "\n", "a", 
    "n", "d", " ", "p", "r", "o", "v", "i", "d", "e", " ", "a", " ", "h", "i", "g", "h", "e", 
    "r", "-", "q", "u", "a", "l", "i", "t", "y", " ", "p", "a", "s", "s", "e", "n", "g", "e", 
    "r", " ", "e", "x", "p", "e", "r", "i", "e", "n", "c", "e", " ", "t", "h", "a", "n", " ", 
    "t", "h", "e", "i", "r", " ", "d", "i", "e", "s", "e", "l", "-", "p", "o", "w", "e", "r", 
    "e", "d", " ", "c", "o", "u", "n", "t", "e", "r", "p", "a", "r", "t", "s", ",", "\n", "a", 
    "l", "l", " ", "w", "h", "i", "l", "e", " ", "b", "e", "i", "n", "g", " ", "c", "h", "e", 
    "a", "p", "e", "r", " ", "t", "o", " ", "r", "u", "n", " ", "a", "n", "d", " ", "m", "a", 
    "i", "n", "t", "a", "i", "n", ".", "\n", "E", "l", "e", "c", "t", "r", "i", "c", " ", "t", 
    "r", "a", "i", "n", "s", " ", "a", "r", "e", " ", "a", "l", "s", "o", " ", "a", " ", "p", 
    "o", "w", "e", "r", "f", "u", "l", " ", "t", "o", "o", "l", " ", "f", "o", "r", " ", "d", 
    "e", "c", "a", "r", "b", "o", "n", "i", "z", "a", "t", "i", "o", "n", ":", "\n", "t", "h", 
    "e", "y", " ", "c", "a", "n", " ", "e", "a", "s", "i", "l", "y", " ", "r", "u", "n", " ", 
    "o", "n", " ", "n", "o", "n", "-", "c", "a", "r", "b", "o", "n", " ", "f", "u", "e", "l", 
    " ", "s", "o", "u", "r", "c", "e", "s", " ", "a", "n", "d", " ", "p", "r", "o", "d", "u", 
    "c", "e", " ", "n", "o", " ", "l", "o", "c", "a", "l", " ", "p", "o", "l", "l", "u", "t", 
    "i", "o", "n", ".", "\n", "I", "t", " ", "i", "s", " ", "r", "a", "r", "e", " ", "t", "h", 
    "a", "t", " ", "a", " ", "s", "i", "n", "g", "l", "e", " ", "t", "e", "c", "h", "n", "o", 
    "l", "o", "g", "y", " ", "c", "a", "n", " ", "r", "e", "d", "u", "c", "e", " ", "b", "o", 
    "t", "h", " ", "p", "o", "l", "l", "u", "t", "i", "o", "n", " ", "a", "n", "d", " ", "c", 
    "o", "s", "t", "s", " ", "w", "h", "i", "l", "e", " ", "a", "l", "s", "o", " ", "a", "c", 
    "t", "u", "a", "l", "l", "y", " ", "i", "m", "p", "r", "o", "v", "i", "n", "g", " ", "s", 
    "e", "r", "v", "i", "c", "e", ",", "\n", "b", "u", "t", " ", "e", "l", "e", "c", "t", "r", 
    "i", "c", " ", "r", "a", "i", "l", " ", "c", "a", "n", " ", "a", "c", "c", "o", "m", "p", 
    "l", "i", "s", "h", " ", "j", "u", "s", "t", " ", "t", "h", "a", "t", ".", "\n", "T", "h", 
    "a", "t", " ", "i", "s", " ", "w", "h", "y", " ", "t", "h", "e", " ", "f", "u", "t", "u", 
    "r", "e", " ", "o", "f", " ", "r", "a", "i", "l", " ", "i", "s", " ", "e", "l", "e", "c", 
    "t", "r", "i", "c", " ", "a", "r", "o", "u", "n", "d", " ", "b", "o", "t", "h", " ", "t", 
    "h", "e", " ", "c", "o", "u", "n", "t", "r", "y", " ", "a", "n", "d", " ", "t", "h", "e", 
    " ", "w", "o", "r", "l", "d", ".", "\n", " ", " ", " ", " ", " ", " ", " ", " " >>

----------------------------------------------------------------------------
(* The other rules.                                                        *)

canonicalize_quotes(text) ==
    ReplaceAll(AnyOf({"U+201C", "U+201D"}, <<"\"">>),
               ReplaceAll(AnyOf({"U+2018", "U+2019"}, <<"'">>), text))

\* Regex::split: the text between the matches, an empty piece included when a
\* match starts or ends the text.
RECURSIVE RegexSplitFrom(_, _, _)
RegexSplitFrom(p, s, i) ==
    LET j == NextMatch(p, s, i)
    IN  IF j > Len(s) THEN <<SubSeq(s, i, Len(s))>>
        ELSE <<SubSeq(s, i, j - 1)>> \o RegexSplitFrom(p, s, j + MatchAt(p, s, j))

remove_embedded_images(text) == Join(RegexSplitFrom(DataImage, text, 1), <<"T", "O", "D", "O">>)

remove_extra_ref_spaces(text) == ReplaceAll(RefWithSpaces, text)

simplify_urls(text) == ReplaceAll(Link, text)

canonicalize_through_running(text) ==
    ReplaceAll(Literal(<<"r", "u", "n", " ", "t", "h", "r", "o", "u", "g", "h">>, <<"t", "h", "r", "o", "u", "g", "h", "-", "r", "u", "n">>),
      ReplaceAll(Literal(<<"t", "h", "r", "o", "u", "g", "h", " ", "r", "u", "n">>, <<"t", "h", "r", "o", "u", "g", "h", "-", "r", "u", "n">>),
        ReplaceAll(Literal(<<"r", "u", "n", "n", "i", "n", "g", " ", "t", "h", "r", "o", "u", "g", "h">>, <<"t", "h", "r", "o", "u", "g", "h", "-", "r", "u", "n", "n", "i", "n", "g">>),
          ReplaceAll(Literal(<<"t", "h", "r", "o", "u", "g", "h", " ", "r", "u", "n", "n", "i", "n", "g">>, <<"t", "h", "r", "o", "u", "g", "h", "-", "r", "u", "n", "n", "i", "n", "g">>), text))))

move_footnotes_after_punctuation(text) == ReplaceAll(Footnote, text)

Commands ==
    {"Quotes", "EmbeddedImages", "ExtraRefSpaces", "SimplifyUrls", "SemanticLineBreaks",
     "ThroughRunning", "FootnotesAfterPunctuation"}

\* Command::rewrite
rewrite(cmd, text) ==
    CASE cmd = "Quotes" -> canonicalize_quotes(text)
      [] cmd = "EmbeddedImages" -> remove_embedded_images(text)
      [] cmd = "ExtraRefSpaces" -> remove_extra_ref_spaces(text)
      [] cmd = "SimplifyUrls" -> simplify_urls(text)
      [] cmd = "SemanticLineBreaks" -> add_semantic_line_breaks(text)
      [] cmd = "ThroughRunning" -> canonicalize_through_running(text)
      [] cmd = "FootnotesAfterPunctuation" -> move_footnotes_after_punctuation(text)

----------------------------------------------------------------------------
(* The inputs: every text made of at most n of the given pieces.           *)

Texts(pieces, n) ==
    UNION {{Concat([i \in 1..k |-> pieces[f[i]]]) : f \in [1..k -> DOMAIN pieces]} : k \in 0..n}

Word == <<
    "a", "a", "a", "a", "a", "a", "a", "a", "a", "a", "a", "a", "a", "a", "a", "a", "a", "a", 
    "a", "a", "a", "a", "a", "a", "a", "a", "a", "a", "a", "a", "a", "a", "a", "a", "a", "a", 
    "a", "a", "a", "a", "a", "a", "a", "a", "a", "a", "a", "a", "a" >>

LineBreakPieces ==
    << Word, Word \o Word, <<".", " ">>, <<",", " ">>, <<" ", "(">>, <<" ", "t", "h", "a", "t">>, <<"\n">>, <<"#">> >>

ThroughRunningPieces == << <<"t", "h", "r", "o", "u", "g", "h">>, <<"r", "u", "n">>, <<"r", "u", "n", "n", "i", "n", "g">>, <<" ">>, <<"-">> >>

FootnotePieces ==
    << <<"[", "^", "a", "]">>, <<"[", "^">>, <<"]">>, <<".">>, <<"!">>, <<"?">>, <<";">>, <<":">>, <<",">>, <<" ">> >>

UrlPieces ==
    << <<"[", "a">>, <<"[", "a", "\\">>, <<"]", "(", "a", ")">>, <<"]", "(">>, <<"[">>, <<"]">>, <<"(">>, <<")">>, <<"a">>, <<"\\">> >>

RunPieces ==
    << <<"a">>, <<"\n">>, <<"U+2018", "a", "U+2019", " ", "U+201C", "a", "U+201D">>, <<"[", "a", "]", ":", " ", " ", "a">>, <<"<", "d", "a", "t", "a", ":", "i", "m", "a", "g", "e", "/", "a", ">">>, <<"[", "a", "\\", "_", "a", "]", "(", "a", "_", "a", ")">>,
       <<"r", "u", "n", " ", "t", "h", "r", "o", "u", "g", "h">>, <<"[", "^", "a", "]", ".">>, Word \o <<".", " ">> \o Word \o <<",", " ", "a">> >>

----------------------------------------------------------------------------
(* One rule applied to a text, and again to its own output.                *)

NoRun ==
    /\ file = <<>> /\ orig = <<>> /\ index = <<>> /\ head = <<>>
    /\ commit = FALSE /\ precheck = "not_run" /\ failed = "none"
    /\ rewritten = <<>>

InitRule(cmd, inputs) ==
    /\ command = cmd
    /\ before \in inputs
    /\ after = <<>>
    /\ twice = <<>>
    /\ pc = "input"
    /\ NoRun

ApplyRule ==
    /\ pc = "input"
    /\ after' = rewrite(command, before)
    /\ pc' = "rewritten"
    /\ UNCHANGED <<file, orig, index, head, command, commit, before, rewritten, twice,
                   precheck, failed>>

ApplyAgain ==
    /\ pc = "rewritten"
    /\ twice' = rewrite(command, after)
    /\ pc' = "rewritten_twice"
    /\ UNCHANGED <<file, orig, index, head, command, commit, before, after, rewritten,
                   precheck, failed>>

NextRule == ApplyRule \/ ApplyAgain

InitLineBreaks ==
    InitRule("SemanticLineBreaks",
             Texts(LineBreakPieces, MaxPieces) \cup {WorkedExampleBefore})

SpecLineBreaks == InitLineBreaks /\ [][NextRule]_vars

InitThroughRunning == InitRule("ThroughRunning", Texts(ThroughRunningPieces, MaxWords))

SpecThroughRunning == InitThroughRunning /\ [][NextRule]_vars

InitFootnotes ==
    InitRule("FootnotesAfterPunctuation", Texts(FootnotePieces, MaxFootnotePieces))

SpecFootnotes == InitFootnotes /\ [][NextRule]_vars

InitUrls == InitRule("SimplifyUrls", Texts(UrlPieces, MaxUrlPieces))

SpecUrls == InitUrls /\ [][NextRule]_vars

----------------------------------------------------------------------------
(* Args::run.                                                              *)

\* process::Output, as far as the checks read it; spawned = FALSE is the
\* io::Error of Command::output.
Outputs == [spawned : BOOLEAN, success : BOOLEAN, stdout_empty : BOOLEAN]

check_status(output) == output.success

check_empty_stdout(output) == output.stdout_empty

\* run_command: Ok iff the command ran and every check passed.
run_command(output, checks) ==
    /\ output.spawned
    /\ \A c \in checks : IF c = "check_status" THEN check_status(output)
                         ELSE check_empty_stdout(output)

\* The newline pushed without the test.
EnsureNewlineUnconditionally(text) == text \o <<"\n">>

\* if !after.ends_with("\n") { after.push_str("\n") }
EnsureNewline(text) == IF EndsWith(text, <<"\n">>) THEN text ELSE text \o <<"\n">>

Init ==
    /\ file \in Texts(RunPieces, MaxRunPieces)
    /\ orig = file /\ index = file /\ head = file
    /\ command \in Commands
    /\ commit \in BOOLEAN
    /\ pc = "start"
    /\ before = <<>> /\ after = <<>> /\ rewritten = <<>> /\ twice = <<>>
    /\ precheck = "not_run" /\ failed = "none"

Fail(step) == pc' = "error" /\ failed' = step

\* The pre-check with its result dropped: the run goes on whatever git says.
GitStatusUnchecked ==
    /\ pc = "start" /\ commit
    /\ \E output \in Outputs :
        /\ precheck' = (IF run_command(output, {"check_status", "check_empty_stdout"})
                        THEN "passed" ELSE "failed")
        /\ pc' = "assert" /\ failed' = failed
    /\ UNCHANGED <<file, orig, index, head, command, commit, before, after, rewritten, twice>>

\* run_command(git status --porcelain, [check_status, check_empty_stdout])?
GitStatus ==
    /\ pc = "start" /\ commit
    /\ \E output \in Outputs :
        IF run_command(output, {"check_status", "check_empty_stdout"})
        THEN precheck' = "passed" /\ pc' = "assert" /\ failed' = failed
        ELSE precheck' = "failed" /\ Fail("status")
    /\ UNCHANGED <<file, orig, index, head, command, commit, before, after, rewritten, twice>>

\* assert!({ let output = git status --porcelain .output()?; ... })
GitStatusAssert ==
    /\ pc = "assert"
    /\ \E output \in Outputs :
        IF ~output.spawned THEN Fail("status")
        ELSE IF output.success /\ output.stdout_empty THEN pc' = "read" /\ failed' = failed
        ELSE pc' = "panic" /\ failed' = "assert"
    /\ UNCHANGED <<file, orig, index, head, command, commit, before, after, rewritten, twice,
                   precheck>>

\* let before = fs_err::read_to_string(&self.path)?;
Read ==
    /\ pc = "read" \/ (pc = "start" /\ ~commit)
    /\ \/ before' = file /\ pc' = "rewrite" /\ failed' = failed
       \/ before' = before /\ Fail("read")
    /\ UNCHANGED <<file, orig, index, head, command, commit, after, rewritten, twice, precheck>>

\* let mut after = self.command.rewrite(before); and the trailing newline.
Rewrite ==
    /\ pc = "rewrite"
    /\ rewritten' = rewrite(command, before)
    /\ after' = EnsureNewline(rewritten')
    /\ pc' = "write"
    /\ UNCHANGED <<file, orig, index, head, command, commit, before, twice, precheck, failed>>

\* fs_err::write(&self.path, after)?;  A failed write leaves the old contents
\* or a prefix of the new ones.
Write ==
    /\ pc = "write"
    /\ \/ file' = after /\ pc' = (IF commit THEN "add" ELSE "done") /\ failed' = failed
       \/ /\ file' \in {file} \cup {SubSeq(after, 1, k) : k \in 0..(Len(after) - 1)}
          /\ Fail("write")
    /\ UNCHANGED <<orig, index, head, command, commit, before, after, rewritten, twice, precheck>>

\* run_command(git add path, [check_status])?
GitAdd ==
    /\ pc = "add"
    /\ \E output \in Outputs :
        IF run_command(output, {"check_status"})
        THEN index' = file /\ pc' = "commit" /\ failed' = failed
        ELSE index' = index /\ Fail("add")
    /\ UNCHANGED <<file, orig, head, command, commit, before, after, rewritten, twice, precheck>>

\* run_command(git commit -m msg, [check_status])?  git commit exits non-zero
\* when the index holds nothing to commit.
GitCommit ==
    /\ pc = "commit"
    /\ \E output \in Outputs :
        /\ output.spawned /\ output.success => index /= head
        /\ IF run_command(output, {"check_status"})
           THEN head' = index /\ pc' = "done" /\ failed' = failed
           ELSE head' = head /\ Fail("commit")
    /\ UNCHANGED <<file, orig, index, command, commit, before, after, rewritten, twice, precheck>>

Next == GitStatus \/ GitStatusAssert \/ Read \/ Rewrite \/ Write \/ GitAdd \/ GitCommit

Spec == Init /\ [][Next]_vars

----------------------------------------------------------------------------
(* Properties.                                                             *)

Applied == pc \in {"rewritten", "rewritten_twice"}

AppliedTwice == pc = "rewritten_twice"

\* s without one final newline, if it has one.
Chomp(s) == IF EndsWith(s, <<"\n">>) THEN SubSeq(s, 1, Len(s) - 1) ELSE s

\* s read with all spaces and line breaks removed.
Squeeze(s) == SelectSeq(s, LAMBDA c : c \notin {" ", "\n"})

HasBreakPoint(line) ==
    \/ NextMatch(Outer, line, 1) <= Len(line)
    \/ NextMatch(Inner, line, 1) <= Len(line)

\* A line add_line_breaks returns as it is.
Unsplit(line) == ByteLen(line) < max_line_length \/ is_heading(line)

RECURSIVE IsSubsequence(_, _)
IsSubsequence(xs, ys) ==
    IF xs = <<>> THEN TRUE
    ELSE IF ys = <<>> THEN FALSE
    ELSE IF Head(xs) = Head(ys) THEN IsSubsequence(Tail(xs), Tail(ys))
    ELSE IsSubsequence(xs, Tail(ys))

\* C1: no line of the output that is no heading and is 100 bytes long or longer
\* still holds a break point (a match of the outer or of the inner separator).
C1_LongLinesHaveNoBreakPoint ==
    Applied =>
        \A line \in {Split(after, "\n")[k] : k \in DOMAIN Split(after, "\n")} :
            ByteLen(line) >= max_line_length /\ ~is_heading(line) => ~HasBreakPoint(line)

\* C2 as stated: the engine applied to its own output returns that output.
C2_Idempotent == AppliedTwice => twice = after

\* C2 amended: the engine applied to its own output returns that output without
\* its final newline, if it has one; nothing else changes.
C2_IdempotentUpToFinalNewline == AppliedTwice => twice = Chomp(after)

\* The first run broke a line in two and the second run met that output.
C2_Witness ==
    /\ AppliedTwice
    /\ Len(Split(after, "\n")) > Len(Split(before, "\n"))
    /\ \E k \in DOMAIN Split(after, "\n") : ByteLen(Split(after, "\n")[k]) >= max_line_length
    /\ twice = after

C4_OnlySeparatorsChange ==
    /\ Applied => Squeeze(after) = Squeeze(before)
    /\ AppliedTwice => Squeeze(twice) = Squeeze(before)

\* Both tiers acted: the output has more lines than the input, one original line
\* came out as three or more, and a space of the input is gone or new.
C4_Witness ==
    /\ Applied
    /\ Len(SplitTerminator(before, "\n")) = 1
    /\ Len(Split(after, "\n")) >= 3
    /\ NextMatch(Outer, before, 1) <= Len(before)
    /\ NextMatch(Inner, before, 1) <= Len(before)

\* C5: on the worked example of the tests the engine returns the expected text.
C5_WorkedExample ==
    (Applied /\ before = WorkedExampleBefore) => after = WorkedExampleAfter

\* C6: canonicalize_through_running applied twice gives what one application
\* gives.
C6_Idempotent == AppliedTwice => twice = after

\* The footnote markers of the claim: `[^`, any characters but `]`, `]`.
MarkerEnd(s, j) == IndexOf(s, j + 2, "]")

MarkerFollowedBy(s, j, punct) ==
    /\ StartsWithAt(s, j, <<"[", "^">>)
    /\ MarkerEnd(s, j) < Len(s)
    /\ s[MarkerEnd(s, j) + 1] \in punct

\* The markers followed by such a character that lie in no earlier one.
SwapStarts(s, punct) ==
    {j \in DOMAIN s :
        /\ MarkerFollowedBy(s, j, punct)
        /\ \A i \in 1..(j - 1) : MarkerFollowedBy(s, i, punct) => MarkerEnd(s, i) < j}

\* Every marker followed by a character of punct comes out after that character,
\* and every other character stays where it was.
SwapsExactly(punct) ==
    Applied =>
        /\ Len(after) = Len(before)
        /\ \A j \in SwapStarts(before, punct) :
            /\ after[j] = before[MarkerEnd(before, j) + 1]
            /\ SubSeq(after, j + 1, MarkerEnd(before, j) + 1)
                 = SubSeq(before, j, MarkerEnd(before, j))
        /\ \A i \in DOMAIN before :
            (\A j \in SwapStarts(before, punct) : i < j \/ i > MarkerEnd(before, j) + 1)
                => after[i] = before[i]

ClaimedPunctuation == {".", "!", "?", ";", ":", ","}

\* C7 as stated: the markers followed by one of . ! ? ; : , are swapped with it.
C7_SwapsClaimedPunctuation == SwapsExactly(ClaimedPunctuation)

\* C7 amended: the markers followed by one of . ! ? ; , are swapped with it; a
\* marker followed by `:` is left as it is, like every other character.
C7_SwapsAllButColon == SwapsExactly(ClaimedPunctuation \ {":"})

\* A marker is swapped with the comma after it, another one stays before its
\* colon.
C7_Witness ==
    /\ Applied
    /\ \E j \in SwapStarts(before, {","}) : after[j] = ","
    /\ \E j \in DOMAIN before : MarkerFollowedBy(before, j, {":"}) /\ after[j] = "["

\* What simplify_urls writes for the character at i of the input: a character
\* outside the links, or of a link whose text without backslashes is not its
\* target, is written as it is; of a link that is its own target the brackets
\* become < and >, the target is written, and the text and `](` are not.
LinkAt(s, i) == {j \in Matches(Link, s) : j <= i /\ i < j + MatchAt(Link, s, j)}

IsSelfLink(s, j) ==
    SelectSeq(SubSeq(s, j + 1, LinkTextEnd(s, j) - 1), LAMBDA c : c /= "\\")
        = SubSeq(s, LinkTextEnd(s, j) + 2, LinkEnd(s, j) - 1)

WrittenFor(s, i) ==
    IF \A j \in LinkAt(s, i) : ~IsSelfLink(s, j) THEN <<s[i]>>
    ELSE LET j == CHOOSE j \in LinkAt(s, i) : TRUE
         IN  IF i = j THEN <<"<">>
             ELSE IF i = LinkEnd(s, j) THEN <<">">>
             ELSE IF i > LinkTextEnd(s, j) + 1 THEN <<s[i]>>
             ELSE <<>>

\* C8: a link is replaced by <target> exactly when its text without backslashes
\* is its target, and everything else is written unchanged.
C8_SimplifiesSelfLinks ==
    Applied => after = Concat([i \in DOMAIN before |-> WrittenFor(before, i)])

\* A link with a backslash in its text is simplified.
C8_Witness ==
    /\ Applied
    /\ \E j \in Matches(Link, before) :
        /\ IsSelfLink(before, j)
        /\ "\\" \in {before[i] : i \in j..LinkTextEnd(before, j)}
    /\ after /= before

\* The file was overwritten by this run.
Written == pc \in {"add", "commit", "done"} \/ failed \in {"add", "commit"}

\* C9 as stated: a run that a git step made fail leaves the file and the
\* repository as they were.
C9_GitFailureLeavesAllUnchanged ==
    (pc = "error" /\ failed \in {"status", "add", "commit"})
        => file = orig /\ index = orig /\ head = orig

\* C9 amended: a failed pre-check ends the run with the file not written and the
\* repository unchanged; a failure of git add ends it with the file written and
\* nothing staged; a failure of git commit ends it with the file written and
\* staged, and not committed.
C9_OnlyThePreCheckAbortsBeforeTheWrite ==
    /\ precheck = "failed" => pc = "error" /\ file = orig /\ index = orig /\ head = orig
    /\ failed \in {"status", "assert"} => file = orig /\ index = orig /\ head = orig
    /\ failed = "add" => file = after /\ index = orig /\ head = orig
    /\ failed = "commit" => file = after /\ index = after /\ head = orig

\* git commit failed after the file was rewritten and staged.
C9_Witness == failed = "commit" /\ file /= orig /\ index = file /\ precheck = "passed"

\* C10 as stated: the text written ends with exactly one newline.
C10_ExactlyOneFinalNewline ==
    Written => EndsWith(file, <<"\n">>) /\ ~EndsWith(file, <<"\n", "\n">>)

\* C10 amended: the text written ends with a newline; it is the rewritten text,
\* with a newline added exactly when the rewritten text does not end with one.
C10_AtLeastOneFinalNewline ==
    Written =>
        /\ EndsWith(file, <<"\n">>)
        /\ file = (IF rewritten /= <<>> /\ rewritten[Len(rewritten)] = "\n"
                   THEN rewritten ELSE rewritten \o <<"\n">>)

\* A newline was added to a rewritten text that had none.
C10_Witness == Written /\ rewritten /= <<>> /\ rewritten[Len(rewritten)] /= "\n"

====
